---- MODULE Spec2Model ----
(***************************************************************************)
(* Broadway lottery sign-up: the form handlers of app.py and the MongoDB   *)
(* store layer of db_mongodb.py, as a state machine.                       *)
(*                                                                         *)
(* Strings are sequences of one-character tokens.  The document store is   *)
(* an external collaborator: every store call (find_one, replace_one,      *)
(* delete_one, delete_many, insert_one, find, aggregate) is one atomic     *)
(* step, which either takes effect or raises PyMongoError without effect.  *)
(* Several sessions (Procs) run handlers and store functions at once, so   *)
(* the store calls of different calls interleave.                          *)
(***************************************************************************)
EXTENDS Integers, Sequences, FiniteSets, TLC

VARIABLES entries, logs, tries_logs, clock, pc, call, ui, ncalls, nfaults, san

vars == <<entries, logs, tries_logs, clock, pc, call, ui, ncalls, nfaults, san>>

(***************************************************************************)
(* Bounds of the model.                                                    *)
(***************************************************************************)
\* operations (store calls from outside, or button clicks) started in one run
MaxCalls == 3
\* buttons clicked in one run
MaxClicks == 2
\* store calls that raise PyMongoError in one run
MaxFaults == 1
\* length of the raw strings given to sanitize_input in SpecSan
MaxLen == 3

\* the sessions running the script at the same time
Procs == {1, 2}

(***************************************************************************)
(* Characters.  NUL stands for the control characters that str.strip()     *)
(* does not treat as whitespace (0x00-0x08, 0x0e-0x1b, 0x7f-0x84, ...),    *)
(* TAB for those it does (0x09-0x0d, 0x1c-0x1f, 0x85), SP for whitespace   *)
(* that is not a control character.                                        *)
(***************************************************************************)
NUL == "NUL"
TAB == "TAB"
SP == " "

LowerLetters == {"a", "b", "c", "g", "l", "o", "t", "u", "v"}
UpperLetters == {"U", "V"}
Letters == LowerLetters \cup UpperLetters

\* the characters re.sub(r"[\x00-\x1f\x7f-\x9f]", "", ...) removes
ControlChars == {NUL, TAB}
\* the characters str.strip() removes at both ends
Whitespace == {SP, TAB}

\* str.lower() on one character
LowerChar(c) == CASE c = "U" -> "u" [] c = "V" -> "v" [] OTHER -> c

\* str.lower()
Lower(s) == [i \in 1..Len(s) |-> LowerChar(s[i])]

RECURSIVE LStrip(_)
LStrip(s) == IF s # << >> /\ Head(s) \in Whitespace THEN LStrip(Tail(s)) ELSE s

RECURSIVE RStrip(_)
RStrip(s) ==
    IF s # << >> /\ s[Len(s)] \in Whitespace
    THEN RStrip(SubSeq(s, 1, Len(s) - 1))
    ELSE s

\* value.strip()
Strip(s) == RStrip(LStrip(s))

IsNotControl(c) == c \notin ControlChars

\* re.sub(r"[\x00-\x1f\x7f-\x9f]", "", value)
RemoveControl(s) == SelectSeq(s, IsNotControl)

EscapeChar(c) ==
    CASE c = "<" -> <<"&", "l", "t", ";">>
      [] c = ">" -> <<"&", "g", "t", ";">>
      [] OTHER -> <<c>>

\* value.replace("<", "&lt;").replace(">", "&gt;")
RECURSIVE EscapeAngle(_)
EscapeAngle(s) ==
    IF s = << >> THEN << >> ELSE EscapeChar(Head(s)) \o EscapeAngle(Tail(s))

\* sanitize_input, for a str argument: strip, then remove the control
\* characters, then escape the angle brackets
sanitize_input(value) == EscapeAngle(RemoveControl(Strip(value)))

IsLocalChar(c) == c \in Letters \cup {".", "_", "%", "+", "-"}
IsDomainChar(c) == c \in Letters \cup {".", "-"}

\* re.match(r"^[a-zA-Z0-9._%+-]+@[a-zA-Z0-9.-]+\.[a-zA-Z]{2,}$", email):
\* i is the place of the "@", j the place of the dot before the last label
validate_email(email) ==
    \E i \in 2..Len(email) : \E j \in (i + 2)..(Len(email) - 2) :
        /\ email[i] = "@"
        /\ email[j] = "."
        /\ \A k \in 1..(i - 1) : IsLocalChar(email[k])
        /\ \A k \in (i + 1)..(j - 1) : IsDomainChar(email[k])
        /\ \A k \in (j + 1)..Len(email) : email[k] \in Letters


(***************************************************************************)
(* Inputs.                                                                 *)
(***************************************************************************)
\* the show (two of SHOWS, app.py 75-84) and the number of tickets of a
\* submission
Selections == {[show |-> "SIX", quantity |-> 1], [show |-> "WICKED", quantity |-> 2]}
\* the show and the number of tries of the "Log Your Attempts" form
StatsShows == {"WICKED"}
Tries == {1}

EmailU == <<"U", "@", "b", ".", "c", "o">>
EmailV == <<"v", "@", "b", ".", "c", "o">>
\* the emails one session calls the store functions with: two spellings
\* of one address and another address
Emails == {EmailU, Lower(EmailU), EmailV}
\* the emails two sessions call save_entry and delete_entry with: they
\* race for the entry of one address
RaceEmails == {EmailU, Lower(EmailU)}
RaceDeleteEmails == {EmailU}
\* what a user types into the email field: blank, malformed, well-formed
RawInputs == {<<SP, NUL>>, <<"u", "@", "b">>, <<SP>> \o EmailU}
\* the action get_logs_by_action is asked for
Actions == {"cancelled"}
\* the email get_user_activity_log is asked for
LogEmails == {EmailU}

(***************************************************************************)
(* The document store.  entries is the entries collection, a set of        *)
(* documents {email, show, quantity, timestamp}; logs is the logs          *)
(* collection in insertion order.                                          *)
(***************************************************************************)
None == [none |-> TRUE]

\* a bug the filter could have: it does not select by email
MatchingAny(coll, key) == coll

\* the documents of coll the filter {"email": key} selects
Matching(coll, key) == {d \in coll : d.email = key}

\* collection.find_one({"email": key}): the results it can give
find_one(coll, key) ==
    IF Matching(coll, key) = {} THEN {None} ELSE Matching(coll, key)

\* a bug replace_one's caller could have: the document is inserted without
\* looking for the one to replace
replace_one_inserts(coll, key, doc) ==
    {[coll |-> coll \cup {doc}, matched_count |-> 0, upserted |-> TRUE]}

\* collection.replace_one({"email": key}, doc, upsert=True): the outcomes
\* (collection afterwards, result.matched_count, result.upserted_id set)
replace_one(coll, key, doc) ==
    IF Matching(coll, key) = {}
    THEN {[coll |-> coll \cup {doc}, matched_count |-> 0, upserted |-> TRUE]}
    ELSE {[coll |-> (coll \ {d}) \cup {doc}, matched_count |-> 1,
           upserted |-> FALSE] : d \in Matching(coll, key)}

\* collection.delete_one({"email": key}): the outcomes (collection
\* afterwards, result.deleted_count, the document removed)
delete_one(coll, key) ==
    IF Matching(coll, key) = {}
    THEN {[coll |-> coll, deleted_count |-> 0, removed |-> None]}
    ELSE {[coll |-> coll \ {d}, deleted_count |-> 1, removed |-> d] :
           d \in Matching(coll, key)}

\* the position of a record with the greatest timestamp
MaxAt(s) == CHOOSE i \in 1..Len(s) : \A j \in 1..Len(s) : s[j].timestamp <= s[i].timestamp

RemoveAt(s, i) == SubSeq(s, 1, i - 1) \o SubSeq(s, i + 1, Len(s))

\* cursor.sort("timestamp", -1)
RECURSIVE SortNewestFirst(_)
SortNewestFirst(s) ==
    IF s = << >> THEN << >>
    ELSE <<s[MaxAt(s)]>> \o SortNewestFirst(RemoveAt(s, MaxAt(s)))

(***************************************************************************)
(* The frame of a store function call (call[p]) and of a form handler      *)
(* (ui[p]).  A frame keeps its values after the return, until the session  *)
(* starts its next operation.  The fields after st_error record what the   *)
(* call did, for the properties below; the code does not read them:        *)
(*   raised      a PyMongoError left the function                          *)
(*   faulted     a store call of the function raised PyMongoError          *)
(*   present     the email had an entry when the function looked it up     *)
(*   mutated     the function changed the entries collection               *)
(*   appended    the number of LogRecords the function appended            *)
(*   logidx      the place in logs of the LogRecord it appended            *)
(*   base        the length of logs when the function was called           *)
(*   peer        the session whose save_entry for the same email ran at    *)
(*               the same time                                             *)
(*   replaced    replace_one of the function was applied                   *)
(*   overwritten another call wrote the email's entry after replace_one    *)
(*   disturbed   another call wrote the email's entry between the lookup   *)
(*               and the write of the function                             *)
(*   removed     the document delete_one removed                           *)
(***************************************************************************)
IdleCall ==
    [fn |-> "none", email |-> << >>, show |-> "", quantity |-> 0,
     current_time |-> 0, existing_entry |-> None, action |-> "",
     matched_count |-> 0, upserted |-> FALSE, deleted_count |-> 0,
     ret |-> None, raised |-> FALSE, st_error |-> FALSE,
     faulted |-> FALSE, present |-> FALSE, mutated |-> FALSE,
     appended |-> 0, logidx |-> 0, base |-> 0, peer |-> 0,
     replaced |-> FALSE, overwritten |-> FALSE, disturbed |-> FALSE,
     removed |-> None]

IdleUi ==
    [flow |-> "none", email_input |-> << >>, sanitized_email |-> << >>,
     selected_show |-> "", selected_quantity |-> 0, tries_input |-> 0,
     existing_entry |-> None, msgs |-> {}, invoked |-> {}]

\* the calls of save_entry in progress that a new call for key races with
Racing(p, key) ==
    {q \in Procs \ {p} : /\ pc[q] \in {"save_replace", "save_log"}
                         /\ Lower(call[q].email) = key}

\* session p enters save_entry with frame c: a call of save_entry in
\* progress for the same email and this one become each other's peer
Enter(p, c) ==
    [q \in Procs |->
        IF q = p
        THEN IF Racing(p, Lower(c.email)) # {}
             THEN [c EXCEPT !.peer = CHOOSE r \in Racing(p, Lower(c.email)) : TRUE]
             ELSE c
        ELSE IF q \in Racing(p, Lower(c.email))
             THEN [call[q] EXCEPT !.peer = p]
             ELSE call[q]]

\* session p writes the entries of keys with frame c: the other calls on
\* these emails that are between their lookup and their write are
\* disturbed, those that have written are overwritten
Write(p, c, keys) ==
    [q \in Procs |->
        IF q = p THEN c
        ELSE IF call[q].fn \in {"save_entry", "delete_entry"}
                /\ Lower(call[q].email) \in keys
             THEN [call[q] EXCEPT
                     !.disturbed = @ \/ pc[q] \in {"save_replace", "del_delete"},
                     !.overwritten = @ \/ call[q].replaced]
             ELSE call[q]]

\* the handler of ui frame u goes on after its store function returned
\* with frame c (app.py 222-232 and 245-247); st.error of the store
\* function has put its message on the page
AfterReturn(u, c) ==
    LET shown == u.msgs \cup (IF c.st_error THEN {"error_store"} ELSE {}) IN
    CASE u.flow = "submit" ->
           [u EXCEPT !.msgs = shown \cup
                        (IF u.existing_entry # None
                         THEN {"success_signed_up", "info_updated"}
                         ELSE {"success_signed_up"})]
      [] u.flow = "cancel" ->
           [u EXCEPT !.msgs = shown \cup {"success_cancelled"}]
      [] OTHER -> u

\* a store function of session p, called by the handler of frame u (IdleUi
\* when no handler called it), returns with frame c
Return(p, u, c) ==
    /\ pc' = [pc EXCEPT ![p] = "idle"]
    /\ ui' = [ui EXCEPT ![p] = AfterReturn(u, c)]

\* a store function of session p, called by the handler of frame u, goes
\* on at place
Goto(p, u, place) ==
    /\ pc' = [pc EXCEPT ![p] = place]
    /\ ui' = [ui EXCEPT ![p] = u]

\* a store call of the function of frame c raised
Raised(c) == [c EXCEPT !.faulted = TRUE]

\* a store call raises PyMongoError
Fault ==
    /\ nfaults < MaxFaults
    /\ nfaults' = nfaults + 1

NoFault == nfaults' = nfaults

\* session p starts an operation; the sessions are alike, and the one that
\* starts the first operation of a run is called session 1
Start(p) ==
    /\ pc[p] = "idle"
    /\ ncalls < MaxCalls
    /\ ncalls = 0 => p = 1
    /\ ncalls' = ncalls + 1

\* a button is clicked in session p
Click(p) ==
    /\ pc[p] = "idle"
    /\ ncalls < MaxClicks
    /\ ncalls = 0 => p = 1
    /\ ncalls' = ncalls + 1

(***************************************************************************)
(* save_entry (db_mongodb.py 87-142)                                       *)
(***************************************************************************)
\* the frame of save_entry(email, show, quantity) at line 108
save_entry_frame(email, show, quantity) ==
    [IdleCall EXCEPT !.fn = "save_entry", !.email = email, !.show = show,
                     !.quantity = quantity, !.current_time = clock,
                     !.base = Len(logs),
                     !.present = \E d \in entries : d.email = Lower(email)]

\* a bug save_entry could have: the handler reports success
save_entry_except_true(c) == [c EXCEPT !.ret = TRUE, !.st_error = TRUE]

\* except PyMongoError (140-142): st.error, return False
save_entry_except(c) == [c EXCEPT !.ret = FALSE, !.st_error = TRUE]

\* a bug save_entry could have: the lookup is not used for the label
save_entry_action_submitted(existing_entry) == "submitted"

\* the action label of line 112
save_entry_action(existing_entry) ==
    IF existing_entry # None THEN "updated" ELSE "submitted"

\* the replacement document of lines 117-122
save_entry_doc(c) ==
    [email |-> Lower(c.email), show |-> c.show, quantity |-> c.quantity,
     timestamp |-> c.current_time]

\* a bug save_entry could have: the LogRecord gets the default quantity
save_entry_log_default_quantity(c) ==
    [email |-> Lower(c.email), show |-> c.show, quantity |-> 2,
     action |-> c.action, timestamp |-> c.current_time]

\* the LogRecord of lines 129-135
save_entry_log(c) ==
    [email |-> Lower(c.email), show |-> c.show, quantity |-> c.quantity,
     action |-> c.action, timestamp |-> c.current_time]

\* lines 106-112: save_entry(email, show, quantity), called by the handler
\* of frame u, takes the time and looks the entry up (collection.find_one)
save_find(p, u, email, show, quantity) ==
    /\ clock' = clock + 1
    /\ \/ /\ NoFault
          /\ \E d \in find_one(entries, Lower(email)) :
                call' = Enter(p, [save_entry_frame(email, show, quantity) EXCEPT
                                     !.existing_entry = d,
                                     !.action = save_entry_action(d)])
          /\ Goto(p, u, "save_replace")
       \/ /\ Fault
          /\ call' = [call EXCEPT ![p] =
                         save_entry_except(Raised(save_entry_frame(email, show, quantity)))]
          /\ Return(p, u, call'[p])
    /\ UNCHANGED <<entries, logs, tries_logs, san>>

\* save_entry is called from outside the forms
SaveEntryCall(p, emails) ==
    \E email \in emails, sel \in Selections :
        /\ Start(p)
        /\ save_find(p, IdleUi, email, sel.show, sel.quantity)

\* lines 115-127: collection.replace_one with upsert, and the test of its
\* result; line 139 returns False when nothing matched and nothing was
\* inserted
save_replace(p) ==
    /\ pc[p] = "save_replace"
    /\ \/ /\ NoFault
          /\ \E r \in replace_one(entries, Lower(call[p].email), save_entry_doc(call[p])) :
                LET c == [call[p] EXCEPT !.matched_count = r.matched_count,
                                         !.upserted = r.upserted,
                                         !.mutated = TRUE, !.replaced = TRUE]
                IN /\ entries' = r.coll
                   /\ IF r.matched_count > 0 \/ r.upserted
                      THEN /\ call' = Write(p, c, {Lower(c.email)})
                           /\ Goto(p, ui[p], "save_log")
                      ELSE /\ call' = Write(p, [c EXCEPT !.ret = FALSE], {Lower(c.email)})
                           /\ Return(p, ui[p], call'[p])
       \/ /\ Fault
          /\ call' = [call EXCEPT ![p] = save_entry_except(Raised(@))]
          /\ Return(p, ui[p], call'[p])
          /\ UNCHANGED entries
    /\ UNCHANGED <<logs, tries_logs, clock, ncalls, san>>

\* lines 128-137: logs_collection.insert_one, return True
save_log(p) ==
    /\ pc[p] = "save_log"
    /\ \/ /\ NoFault
          /\ logs' = Append(logs, save_entry_log(call[p]))
          /\ call' = [call EXCEPT ![p] = [@ EXCEPT !.ret = TRUE, !.appended = @ + 1,
                                                   !.logidx = Len(logs) + 1]]
       \/ /\ Fault
          /\ call' = [call EXCEPT ![p] = save_entry_except(Raised(@))]
          /\ UNCHANGED logs
    /\ Return(p, ui[p], call'[p])
    /\ UNCHANGED <<entries, tries_logs, clock, ncalls, san>>

(***************************************************************************)
(* get_entry (db_mongodb.py 145-167)                                       *)
(***************************************************************************)
\* lines 162-164: the show and the quantity of the document found
get_entry_result(entry) ==
    IF entry # None THEN [show |-> entry.show, quantity |-> entry.quantity] ELSE None

\* except PyMongoError (165-167): st.error, return None
get_entry_except(c) == [c EXCEPT !.ret = None, !.st_error = TRUE]

\* lines 159-164: the frames get_entry(email) can return with when
\* collection.find_one does not raise
get_entry(coll, email) ==
    {[IdleCall EXCEPT !.fn = "get_entry", !.email = email,
                      !.existing_entry = d, !.ret = get_entry_result(d)] :
        d \in find_one(coll, Lower(email))}

\* get_entry(email) by session p, up to its return
get_entry_call(p, email) ==
    \/ /\ NoFault
       /\ \E g \in get_entry(entries, email) : call' = [call EXCEPT ![p] = g]
    \/ /\ Fault
       /\ call' = [call EXCEPT ![p] = get_entry_except(
                      Raised([IdleCall EXCEPT !.fn = "get_entry", !.email = email]))]

\* get_entry is called from outside the forms
GetEntryCall(p) ==
    \E email \in Emails :
        /\ Start(p)
        /\ get_entry_call(p, email)
        /\ ui' = [ui EXCEPT ![p] = IdleUi]
        /\ UNCHANGED <<entries, logs, tries_logs, clock, pc, san>>

(***************************************************************************)
(* delete_entry (db_mongodb.py 170-210)                                    *)
(***************************************************************************)
delete_entry_frame(email) ==
    [IdleCall EXCEPT !.fn = "delete_entry", !.email = email, !.base = Len(logs),
                     !.present = \E d \in entries : d.email = Lower(email)]

\* except PyMongoError (208-210): st.error, return False
delete_entry_except(c) == [c EXCEPT !.ret = FALSE, !.st_error = TRUE]

\* a bug delete_entry could have: the LogRecord gets the email as typed
delete_entry_log_raw_email(c) ==
    [email |-> c.email, show |-> c.existing_entry.show,
     quantity |-> c.existing_entry.quantity, action |-> "cancelled",
     timestamp |-> clock]

\* the LogRecord of lines 197-203: the show and the quantity are those of
\* the document the lookup of line 189 found
delete_entry_log(c) ==
    [email |-> Lower(c.email), show |-> c.existing_entry.show,
     quantity |-> c.existing_entry.quantity, action |-> "cancelled",
     timestamp |-> clock]

\* lines 185-191: delete_entry(email), called by the handler of frame u,
\* looks the entry up (collection.find_one); line 207 returns False when
\* there is none
del_find(p, u, email) ==
    /\ \/ /\ NoFault
          /\ \E d \in find_one(entries, Lower(email)) :
                LET c == [delete_entry_frame(email) EXCEPT !.existing_entry = d] IN
                IF d # None
                THEN /\ call' = [call EXCEPT ![p] = c]
                     /\ Goto(p, u, "del_delete")
                ELSE /\ call' = [call EXCEPT ![p] = [c EXCEPT !.ret = FALSE]]
                     /\ Return(p, u, call'[p])
       \/ /\ Fault
          /\ call' = [call EXCEPT ![p] = delete_entry_except(Raised(delete_entry_frame(email)))]
          /\ Return(p, u, call'[p])
    /\ UNCHANGED <<entries, logs, tries_logs, clock, san>>

\* delete_entry is called from outside the forms
DeleteEntryCall(p, emails) ==
    \E email \in emails :
        /\ Start(p)
        /\ del_find(p, IdleUi, email)

\* lines 192-194: collection.delete_one; line 207 returns False when
\* nothing was deleted
del_delete(p) ==
    /\ pc[p] = "del_delete"
    /\ \/ /\ NoFault
          /\ \E r \in delete_one(entries, Lower(call[p].email)) :
                LET c == [call[p] EXCEPT !.deleted_count = r.deleted_count,
                                         !.removed = r.removed,
                                         !.mutated = r.deleted_count > 0]
                IN /\ entries' = r.coll
                   /\ IF r.deleted_count > 0
                      THEN /\ call' = Write(p, c, {Lower(c.email)})
                           /\ Goto(p, ui[p], "del_log")
                      ELSE /\ call' = [call EXCEPT ![p] = [c EXCEPT !.ret = FALSE]]
                           /\ Return(p, ui[p], call'[p])
       \/ /\ Fault
          /\ call' = [call EXCEPT ![p] = delete_entry_except(Raised(@))]
          /\ Return(p, ui[p], call'[p])
          /\ UNCHANGED entries
    /\ UNCHANGED <<logs, tries_logs, clock, ncalls, san>>

\* lines 196-205: logs_collection.insert_one with the time of line 202,
\* return True
del_log(p) ==
    /\ pc[p] = "del_log"
    /\ \/ /\ NoFault
          /\ logs' = Append(logs, delete_entry_log(call[p]))
          /\ call' = [call EXCEPT ![p] = [@ EXCEPT !.ret = TRUE, !.appended = @ + 1,
                                                   !.logidx = Len(logs) + 1]]
       \/ /\ Fault
          /\ call' = [call EXCEPT ![p] = delete_entry_except(Raised(@))]
          /\ UNCHANGED logs
    /\ clock' = clock + 1
    /\ Return(p, ui[p], call'[p])
    /\ UNCHANGED <<entries, tries_logs, ncalls, san>>

(***************************************************************************)
(* clear_all_entries (db_mongodb.py 259-276)                               *)
(***************************************************************************)
\* except PyMongoError (274-276): st.error, return False
clear_all_entries_except(c) == [c EXCEPT !.ret = FALSE, !.st_error = TRUE]

\* lines 271-273: collection.delete_many({}), return deleted_count >= 0
ClearAllEntries(p) ==
    /\ Start(p)
    /\ \/ /\ NoFault
          /\ entries' = {}
          /\ call' = Write(p, [IdleCall EXCEPT !.fn = "clear_all_entries",
                                               !.deleted_count = Cardinality(entries),
                                               !.mutated = entries # {},
                                               !.base = Len(logs),
                                               !.ret = Cardinality(entries) >= 0],
                           {d.email : d \in entries})
       \/ /\ Fault
          /\ call' = [call EXCEPT ![p] = clear_all_entries_except(
                         Raised([IdleCall EXCEPT !.fn = "clear_all_entries"]))]
          /\ UNCHANGED entries
    /\ ui' = [ui EXCEPT ![p] = IdleUi]
    /\ UNCHANGED <<logs, tries_logs, clock, pc, san>>

(***************************************************************************)
(* The readers of the logs and the statistics (db_mongodb.py 233-256 and   *)
(* 279-377).  Each makes one store call.                                   *)
(***************************************************************************)
\* lines 295-300: find({"email": email.lower()}).sort("timestamp", -1)
get_user_activity_log(email) ==
    SortNewestFirst(SelectSeq(logs, LAMBDA r : r.email = Lower(email)))

\* line 319: find({}).sort("timestamp", -1)
get_all_logs == SortNewestFirst(logs)

\* lines 341-344: find({"action": action}).sort("timestamp", -1)
get_logs_by_action(action) ==
    SortNewestFirst(SelectSeq(logs, LAMBDA r : r.action = action))

\* lines 246-253: the number of entries of each show that has entries
get_show_statistics ==
    [show \in {d.show : d \in entries} |->
        Cardinality({d \in entries : d.show = show})]

\* lines 363-374: the number of LogRecords of each action that has some,
\* and their total under "total"
get_activity_statistics ==
    LET seen == {logs[i].action : i \in 1..Len(logs)} IN
    [k \in seen \cup {"total"} |->
        IF k = "total" THEN Len(logs)
        ELSE Cardinality({i \in 1..Len(logs) : logs[i].action = k})]

\* the readers, the arguments they are called with, what they return and
\* what they return when the store call raises ([] or {})
Readers ==
    {[fn |-> "get_user_activity_log", email |-> e, action |-> "",
      ret |-> get_user_activity_log(e), safe |-> << >>] : e \in LogEmails}
    \cup {[fn |-> "get_all_logs", email |-> << >>, action |-> "",
           ret |-> get_all_logs, safe |-> << >>]}
    \cup {[fn |-> "get_logs_by_action", email |-> << >>, action |-> a,
           ret |-> get_logs_by_action(a), safe |-> << >>] : a \in Actions}
    \cup {[fn |-> "get_show_statistics", email |-> << >>, action |-> "",
           ret |-> get_show_statistics, safe |-> << >>]}
    \cup {[fn |-> "get_activity_statistics", email |-> << >>, action |-> "",
           ret |-> get_activity_statistics, safe |-> << >>]}

\* except PyMongoError of a reader: st.error, return [] or {}
reader_except(c, safe) == [c EXCEPT !.ret = safe, !.st_error = TRUE]

\* a reader is called
ReaderCall(p) ==
    \E r \in Readers :
        LET c == [IdleCall EXCEPT !.fn = r.fn, !.email = r.email, !.action = r.action] IN
        /\ Start(p)
        /\ \/ /\ NoFault
              /\ call' = [call EXCEPT ![p] = [c EXCEPT !.ret = r.ret]]
           \/ /\ Fault
              /\ call' = [call EXCEPT ![p] = reader_except(Raised(c), r.safe)]
        /\ ui' = [ui EXCEPT ![p] = IdleUi]
        /\ UNCHANGED <<entries, logs, tries_logs, clock, pc, san>>

(***************************************************************************)
(* log_tries: imported by app.py from db_mongodb, where it is not defined; *)
(* modelled from the description of the activity log: it appends a         *)
(* TriesLogRecord.                                                         *)
(***************************************************************************)
log_tries(email, show, tries) ==
    Append(tries_logs, [email |-> email, show |-> show, tries |-> tries])

(***************************************************************************)
(* The form handlers (app.py 141-150 and 211-249).  A click runs the       *)
(* handler up to its first store call in one step.                         *)
(***************************************************************************)
\* a bug the handlers could have: the email is only checked for emptiness
email_error_unvalidated(flow, sanitized_email) ==
    IF sanitized_email = << >> THEN "error_empty" ELSE "none"

\* the if / elif of lines 144-147, 214-217 and 237-240: the st.error a
\* sanitized email gets, "none" when it is accepted; the message for an
\* empty email has another wording in the Cancel form
email_error(flow, sanitized_email) ==
    IF sanitized_email = << >>
    THEN IF flow = "cancel" THEN "error_empty_cancel" ELSE "error_empty"
    ELSE IF ~validate_email(sanitized_email) THEN "error_invalid" ELSE "none"

\* the handler's frame after sanitize_input (lines 142, 212, 235)
Clicked(flow, email_input) ==
    [IdleUi EXCEPT !.flow = flow, !.email_input = email_input,
                   !.sanitized_email = sanitize_input(email_input)]

\* the email is rejected: st.error, and the handler ends
Rejected(p, u) ==
    /\ email_error(u.flow, u.sanitized_email) # "none"
    /\ ui' = [ui EXCEPT ![p] = [u EXCEPT !.msgs = {email_error(u.flow, u.sanitized_email)}]]
    /\ call' = [call EXCEPT ![p] = IdleCall]
    /\ UNCHANGED <<entries, logs, tries_logs, clock, pc, nfaults, san>>

\* the handler's frame after get_entry returned with frame g
Looked(u, g) ==
    [u EXCEPT !.existing_entry = g.ret,
              !.msgs = IF g.st_error THEN {"error_store"} ELSE {},
              !.invoked = {"get_entry"}]

\* app.py 211-220: "Submit Entry" is clicked; with an accepted email the
\* handler calls get_entry (line 219)
submit_clicked(p) ==
    \E email_input \in RawInputs :
        LET u == Clicked("submit", email_input) IN
        /\ Click(p)
        /\ \/ Rejected(p, u)
           \/ /\ email_error(u.flow, u.sanitized_email) = "none"
              /\ get_entry_call(p, u.sanitized_email)
              /\ \E sel \in Selections :
                    ui' = [ui EXCEPT ![p] =
                             [Looked(u, call'[p]) EXCEPT
                                 !.selected_show = sel.show,
                                 !.selected_quantity = sel.quantity]]
              /\ pc' = [pc EXCEPT ![p] = "submit_save"]
              /\ UNCHANGED <<entries, logs, tries_logs, clock, san>>

\* app.py 220: the handler calls save_entry
submit_save(p) ==
    /\ pc[p] = "submit_save"
    /\ save_find(p, [ui[p] EXCEPT !.invoked = @ \cup {"save_entry"}],
                 ui[p].sanitized_email, ui[p].selected_show, ui[p].selected_quantity)
    /\ UNCHANGED ncalls

\* app.py 234-249: "Cancel Entry" is clicked; with an accepted email the
\* handler calls get_entry (line 242) and, when there is no entry, warns
cancel_clicked(p) ==
    \E email_input \in RawInputs :
        LET u == Clicked("cancel", email_input) IN
        /\ Click(p)
        /\ \/ Rejected(p, u)
           \/ /\ email_error(u.flow, u.sanitized_email) = "none"
              /\ get_entry_call(p, u.sanitized_email)
              /\ IF call'[p].ret # None
                 THEN /\ ui' = [ui EXCEPT ![p] = Looked(u, call'[p])]
                      /\ pc' = [pc EXCEPT ![p] = "cancel_delete"]
                 ELSE /\ ui' = [ui EXCEPT ![p] =
                                  [Looked(u, call'[p]) EXCEPT
                                      !.msgs = @ \cup {"warning_no_entry"}]]
                      /\ UNCHANGED pc
              /\ UNCHANGED <<entries, logs, tries_logs, clock, san>>

\* app.py 244: the handler calls delete_entry
cancel_delete(p) ==
    /\ pc[p] = "cancel_delete"
    /\ del_find(p, [ui[p] EXCEPT !.invoked = @ \cup {"delete_entry"}],
                ui[p].sanitized_email)
    /\ UNCHANGED ncalls

\* app.py 141-150: "Log Attempts" is clicked; with an accepted email the
\* handler calls log_tries and reports success
log_attempts_clicked(p) ==
    \E email_input \in RawInputs :
        LET u == Clicked("log_attempts", email_input) IN
        /\ Click(p)
        /\ \/ Rejected(p, u)
           \/ /\ email_error(u.flow, u.sanitized_email) = "none"
              /\ \E show \in StatsShows, tries \in Tries :
                    /\ tries_logs' = log_tries(u.sanitized_email, show, tries)
                    /\ ui' = [ui EXCEPT ![p] =
                                [u EXCEPT !.selected_show = show,
                                          !.tries_input = tries,
                                          !.msgs = {"success_logged"},
                                          !.invoked = {"log_tries"}]]
              /\ call' = [call EXCEPT ![p] = IdleCall]
              /\ UNCHANGED <<entries, logs, clock, pc, nfaults, san>>

(***************************************************************************)
(* The specifications.  Spec: two sessions call save_entry and             *)
(* delete_entry.  SpecApi: one session calls every store function.         *)
(* SpecForms: two sessions click the buttons of the forms.                 *)
(***************************************************************************)
SanOff == [stage |-> "off", value |-> << >>, once |-> << >>, twice |-> << >>]

InitStore ==
    /\ entries = {}
    /\ logs = << >>
    /\ tries_logs = << >>
    /\ clock = 0
    /\ pc = [p \in Procs |-> "idle"]
    /\ call = [p \in Procs |-> IdleCall]
    /\ ui = [p \in Procs |-> IdleUi]
    /\ ncalls = 0
    /\ nfaults = 0

Init == InitStore /\ san = SanOff

Next ==
    \E p \in Procs :
        \/ SaveEntryCall(p, RaceEmails)
        \/ save_replace(p)
        \/ save_log(p)
        \/ DeleteEntryCall(p, RaceDeleteEmails)
        \/ del_delete(p)
        \/ del_log(p)

Spec == Init /\ [][Next]_vars

NextApi ==
    \E p \in {1} :
        \/ SaveEntryCall(p, Emails)
        \/ save_replace(p)
        \/ save_log(p)
        \/ GetEntryCall(p)
        \/ DeleteEntryCall(p, Emails)
        \/ del_delete(p)
        \/ del_log(p)
        \/ ClearAllEntries(p)
        \/ ReaderCall(p)

SpecApi == Init /\ [][NextApi]_vars

NextForms ==
    \E p \in Procs :
        \/ submit_clicked(p)
        \/ submit_save(p)
        \/ save_replace(p)
        \/ save_log(p)
        \/ cancel_clicked(p)
        \/ cancel_delete(p)
        \/ del_delete(p)
        \/ del_log(p)
        \/ log_attempts_clicked(p)

SpecForms == Init /\ [][NextForms]_vars

(***************************************************************************)
(* SpecSan: sanitize_input applied to a string, and again to its result.   *)
(***************************************************************************)
SanChars == {"a", SP, NUL, TAB, "<", ">"}

Strings == UNION {[1..n -> SanChars] : n \in 0..MaxLen}

InitSan ==
    /\ InitStore
    /\ san \in {[SanOff EXCEPT !.stage = "input", !.value = x] : x \in Strings}

SanitizeOnce ==
    /\ san.stage = "input"
    /\ san' = [san EXCEPT !.stage = "once", !.once = sanitize_input(san.value)]
    /\ UNCHANGED <<entries, logs, tries_logs, clock, pc, call, ui, ncalls, nfaults>>

SanitizeTwice ==
    /\ san.stage = "once"
    /\ san' = [san EXCEPT !.stage = "twice", !.twice = sanitize_input(san.once)]
    /\ UNCHANGED <<entries, logs, tries_logs, clock, pc, call, ui, ncalls, nfaults>>

NextSan == SanitizeOnce \/ SanitizeTwice

SpecSan == InitSan /\ [][NextSan]_vars

(***************************************************************************)
(* Properties.                                                             *)
(***************************************************************************)
\* the entries of the email of frame c
EntriesOf(coll, c) == {d \in coll : d.email = Lower(c.email)}

\* session p has returned from fn
Returned(p, fn) == pc[p] = "idle" /\ call[p].fn = fn

\* at most one entry per email, and every entry under its lowercased email
OnePerEmail ==
    /\ \A d1, d2 \in entries : d1.email = d2.email => d1 = d2
    /\ \A d \in entries : d.email = Lower(d.email)

\* replace_one of session p's save_entry is applied in this step
Replaces(p) == pc[p] = "save_replace" /\ pc'[p] = "save_log"

\* afterwards the email has the one entry of this call, the entries of the
\* other emails are as before, and get_entry gives the call's show and
\* quantity for every spelling of the email
ReplacedByCall(p) ==
    /\ EntriesOf(entries', call[p]) =
          {[email |-> Lower(call[p].email), show |-> call[p].show,
            quantity |-> call[p].quantity, timestamp |-> call[p].current_time]}
    /\ entries' \ EntriesOf(entries', call[p]) = entries \ EntriesOf(entries, call[p])
    /\ \A e \in Emails :
          Lower(e) = Lower(call[p].email) =>
             \A g \in get_entry(entries', e) :
                g.ret = [show |-> call[p].show, quantity |-> call[p].quantity]

\* C1: in every state reached by interleaved save_entry and delete_entry
\* calls the entries collection holds at most one Entry per lowercased
\* email; a save_entry replaces the show, quantity and timestamp of the
\* email's Entry instead of adding a second one, and get_entry of any
\* spelling of the email then returns the saved show and quantity
C1_KeyedByLowercasedEmail ==
    /\ []OnePerEmail
    /\ [][\A p \in Procs : Replaces(p) => ReplacedByCall(p)]_vars

\* a save_entry called with an uppercase spelling has replaced the entry
\* that another call had stored
C1_Witness ==
    \E p \in Procs :
        /\ pc[p] = "save_log"
        /\ call[p].matched_count = 1
        /\ call[p].email # Lower(call[p].email)
        /\ \E d \in entries : d.email = Lower(call[p].email) /\ d.show = call[p].show
        /\ Len(logs) = 1 /\ logs[1].show # call[p].show

\* C2: every save_entry, delete_entry or clear_all_entries that changed
\* the entries collection and returned True has appended exactly one
\* LogRecord
C2_EveryMutationLogged ==
    \A p \in Procs :
        (/\ pc[p] = "idle"
         /\ call[p].fn \in {"save_entry", "delete_entry", "clear_all_entries"}
         /\ call[p].mutated
         /\ call[p].ret = TRUE)
        => call[p].appended = 1

\* no two "submitted" LogRecords of one email without a "cancelled" one
\* of that email between them
NoTwoSubmitted ==
    \A i, j \in 1..Len(logs) :
        (/\ i < j
         /\ logs[i].email = logs[j].email
         /\ logs[i].action = "submitted"
         /\ logs[j].action = "submitted")
        => \E k \in (i + 1)..(j - 1) :
              logs[k].email = logs[i].email /\ logs[k].action = "cancelled"

\* C3 as claimed: the LogRecord of a successful save_entry says "updated"
\* exactly when replace_one found an Entry to replace, and two submissions
\* of one email without a cancellation between them are never both
\* "submitted"
C3_LabelAtReplace ==
    /\ \A p \in Procs :
          (Returned(p, "save_entry") /\ call[p].ret = TRUE)
          => (logs[call[p].logidx].action = "updated" <=> call[p].matched_count > 0)
    /\ NoTwoSubmitted

\* C3 as amended: the LogRecord of a successful save_entry says "updated"
\* exactly when the email had an Entry at the lookup of line 111, and
\* this is the state replace_one found unless another call wrote the
\* email's Entry between the lookup and replace_one
C3_LabelAtLookup ==
    \A p \in Procs :
        (Returned(p, "save_entry") /\ call[p].ret = TRUE)
        => /\ call[p].logidx \in 1..Len(logs)
           /\ logs[call[p].logidx].action \in {"submitted", "updated"}
           /\ logs[call[p].logidx].action = "updated" <=> call[p].present
           /\ ~call[p].disturbed =>
                 (logs[call[p].logidx].action = "updated" <=> call[p].matched_count > 0)

\* two submissions of one email, the second after the first: "submitted",
\* then "updated"
C3_Witness ==
    /\ Len(logs) = 2
    /\ logs[1].action = "submitted"
    /\ logs[2].action = "updated"
    /\ logs[1].email = logs[2].email
    /\ \E p \in Procs :
          /\ Returned(p, "save_entry")
          /\ call[p].logidx = 2
          /\ ~call[p].disturbed

\* C4: a delete_entry that returned True has appended one "cancelled"
\* LogRecord with the show and the quantity of the Entry that delete_one
\* removed
C4_LogsRemovedEntry ==
    \A p \in Procs :
        (Returned(p, "delete_entry") /\ call[p].ret = TRUE)
        => /\ call[p].appended = 1
           /\ logs[call[p].logidx].action = "cancelled"
           /\ logs[call[p].logidx].show = call[p].removed.show
           /\ logs[call[p].logidx].quantity = call[p].removed.quantity

\* C5: a delete_entry for an email without an Entry changes neither the
\* entries nor the logs in any of its steps, and returns False
C5_DeleteAbsent ==
    [][\A p \in Procs :
          (call'[p].fn = "delete_entry" /\ ~call'[p].present /\ call'[p] # call[p])
          => /\ entries' = entries
             /\ logs' = logs
             /\ tries_logs' = tries_logs
             /\ pc'[p] = "idle"
             /\ call'[p].ret = FALSE]_vars

\* delete_entry has returned False for an email without an Entry while
\* another email has one
C5_Witness ==
    \E p \in Procs :
        /\ Returned(p, "delete_entry")
        /\ ~call[p].present
        /\ ~call[p].faulted
        /\ call[p].ret = FALSE
        /\ entries # {}
        /\ Len(logs) = 1

\* the sanitized email of handler frame u is empty or malformed
BadEmail(u) == u.sanitized_email = << >> \/ ~validate_email(u.sanitized_email)

\* the handler of frame u ended with the error of its email alone, and
\* called no store function
RejectedFrame(u) ==
    /\ u.invoked = {}
    /\ u.sanitized_email = << >> => u.msgs \in {{"error_empty"}, {"error_empty_cancel"}}
    /\ u.sanitized_email # << >> => u.msgs = {"error_invalid"}

\* C6: in the three forms a click with an empty or malformed sanitized
\* email calls no store function, leaves entries, logs and the tries log
\* as they are, and shows the "empty" error for an empty email and the
\* "malformed" error otherwise
C6_RejectedBeforeStore ==
    /\ [](\A p \in Procs :
            (ui[p].flow # "none" /\ BadEmail(ui[p]))
            => /\ RejectedFrame(ui[p])
               /\ pc[p] = "idle"
               /\ call[p] = IdleCall)
    /\ [][\A p \in Procs :
            (ui'[p] # ui[p] /\ BadEmail(ui'[p]))
            => /\ entries' = entries
               /\ logs' = logs
               /\ tries_logs' = tries_logs]_vars

\* a blank email was rejected in the Cancel form and a malformed one in
\* the Submit form
C6_Witness ==
    \E p, q \in Procs :
        /\ ui[p].flow = "cancel" /\ ui[p].msgs = {"error_empty_cancel"}
        /\ ui[p].email_input # << >>
        /\ ui[q].flow = "submit" /\ ui[q].msgs = {"error_invalid"}

\* sessions p and q have returned True from save_entry calls for one email
\* that ran at the same time
RacedSaves(p, q) ==
    /\ p # q
    /\ Returned(p, "save_entry") /\ call[p].ret = TRUE
    /\ Returned(q, "save_entry") /\ call[q].ret = TRUE
    /\ Lower(call[p].email) = Lower(call[q].email)
    /\ call[p].peer = q
    /\ call[q].peer = p

\* the LogRecord session p's save_entry appended carries the call's values
OwnLogRecord(p) ==
    /\ call[p].logidx \in 1..Len(logs)
    /\ logs[call[p].logidx].email = Lower(call[p].email)
    /\ logs[call[p].logidx].show = call[p].show
    /\ logs[call[p].logidx].quantity = call[p].quantity

Max(a, b) == IF a < b THEN b ELSE a

\* C7: after two save_entry calls for one email that ran at the same time
\* the email has exactly one Entry, with the show and the quantity of the
\* call whose replace_one was applied last, and logs has gained exactly
\* two LogRecords, one of each call with that call's show and quantity
C7_LastWriteWins ==
    \A p, q \in Procs :
        RacedSaves(p, q) =>
            LET last == IF call[p].overwritten THEN q ELSE p IN
            /\ call[p].overwritten # call[q].overwritten
            /\ Cardinality(EntriesOf(entries, call[p])) = 1
            /\ \A d \in EntriesOf(entries, call[p]) :
                  d.show = call[last].show /\ d.quantity = call[last].quantity
            /\ Len(logs) = Max(call[p].base, call[q].base) + 2
            /\ {call[p].logidx, call[q].logidx} = {Len(logs) - 1, Len(logs)}
            /\ OwnLogRecord(p)
            /\ OwnLogRecord(q)

\* two save_entry calls with different shows raced, and the one that
\* returned first wrote last
C7_Witness ==
    \E p, q \in Procs :
        /\ RacedSaves(p, q)
        /\ call[p].show # call[q].show
        /\ call[q].overwritten
        /\ call[p].logidx < call[q].logidx

\* what fn returns when a store call raised
Safe(fn) ==
    CASE fn \in {"save_entry", "delete_entry", "clear_all_entries"} -> FALSE
      [] fn = "get_entry" -> None
      [] OTHER -> << >>

C9_Idempotent ==
    san.stage = "twice" =>
        /\ san.twice = san.once
        /\ \A i \in 1..Len(san.once) : san.once[i] \notin ControlChars \cup {"<", ">"}

\* C10: the Submit form shows its success message only if save_entry
\* returned True, and the Cancel form only if delete_entry returned True
C10_SuccessOnlyIfStored ==
    \A p \in Procs :
        /\ (pc[p] = "idle" /\ "success_signed_up" \in ui[p].msgs)
           => (call[p].fn = "save_entry" /\ call[p].ret = TRUE)
        /\ (pc[p] = "idle" /\ "success_cancelled" \in ui[p].msgs)
           => (call[p].fn = "delete_entry" /\ call[p].ret = TRUE)

\* the place in lg of the latest LogRecord of the email key, 0 without one
LatestOf(lg, key) ==
    LET S == {i \in 1..Len(lg) : lg[i].email = key} IN
    IF S = {} THEN 0 ELSE CHOOSE i \in S : \A j \in S : j <= i

\* the email key has an Entry in coll exactly when its latest LogRecord in
\* lg is "submitted" or "updated", and then with that LogRecord's show and
\* quantity
Mirrors(coll, lg, key) ==
    LET i == LatestOf(lg, key)
        ents == {d \in coll : d.email = key}
    IN /\ ents # {} <=> (i > 0 /\ lg[i].action \in {"submitted", "updated"})
       /\ \A d \in ents : i > 0 => (d.show = lg[i].show /\ d.quantity = lg[i].quantity)

\* the lowercased emails of the calls
Keys == {Lower(e) : e \in Emails}

\* C11 as claimed: in every state reached by interleaved save_entry and
\* delete_entry calls, with or without a PyMongoError, every email has an
\* Entry exactly when its latest LogRecord is "submitted" or "updated",
\* with that LogRecord's show and quantity, and has none when it has no
\* LogRecord or its latest one is "cancelled"
C11_LogMirrorsEntries == \A key \in Keys : Mirrors(entries, logs, key)

\* every step leaves the LogRecords it found as they are and appends at
\* most one
AppendOnly ==
    /\ Len(logs') \in {Len(logs), Len(logs) + 1}
    /\ SubSeq(logs', 1, Len(logs)) = logs

\* session p's save_entry or delete_entry appends its LogRecord in this
\* step and returns True
Logs(p) ==
    /\ pc[p] \in {"save_log", "del_log"}
    /\ pc'[p] = "idle"
    /\ call'[p].ret = TRUE

\* the entry of the email is as the write of session p's call left it
AsWritten(p) ==
    IF call[p].fn = "save_entry"
    THEN EntriesOf(entries, call[p]) = {save_entry_doc(call[p])}
    ELSE EntriesOf(entries, call[p]) = {}

\* C11 as amended: LogRecords are only ever appended, never edited or
\* deleted; and when a save_entry or delete_entry appends its LogRecord
\* while the email's Entry is still as the call's own write left it, the
\* email then has an Entry exactly when its latest LogRecord is
\* "submitted" or "updated", with that LogRecord's show and quantity
C11_LogFollowsWrite ==
    [][/\ AppendOnly
       /\ \A p \in Procs :
             (Logs(p) /\ AsWritten(p))
             => Mirrors(entries', logs', Lower(call[p].email))]_vars

\* a delete_entry called with an uppercase spelling has removed the Entry
\* that a save_entry had stored and logged, and has appended the latest
\* LogRecord of the email
C11_Witness ==
    \E p \in Procs :
        /\ Returned(p, "delete_entry")
        /\ call[p].ret = TRUE
        /\ call[p].email # Lower(call[p].email)
        /\ call[p].logidx = Len(logs)
        /\ Len(logs) = 2
        /\ logs[1].action = "submitted"
        /\ logs[2].action = "cancelled"
        /\ entries = {}

====
